---- MODULE Spec2Model ----
(***************************************************************************)
(* Storify: OTP e-mail authentication (authService.sendOtp /               *)
(* authService.verifyOtp, the verify-otp-and-login edge function and the   *)
(* otp_verifications / user_credentials tables).                           *)
(*                                                                         *)
(* Every awaited remote call of the source is one atomic step of a         *)
(* process; the code between two awaits belongs to the step that follows   *)
(* it.  Several browser tabs (Procs) run the client code concurrently.     *)
(* The browser, the edge function and the database read one clock (now).   *)
(* The notification dispatcher (send-otp-email) keeps no state that the    *)
(* flows read back.                                                        *)
(*                                                                         *)
(* Storify: encrypted file storage (lib/encryption.ts, FileUpload and      *)
(* FileList, the files table and the encrypted-files bucket), modelled     *)
(* the same way for one signed-in user, and the code generator and the     *)
(* codecs run on their own as pure functions.                              *)
(***************************************************************************)
EXTENDS Integers, Sequences, FiniteSets, TLC

(* ------------------------------------------------------------------ *)
(* Bounds of the model                                                 *)
(* ------------------------------------------------------------------ *)

\* at most this many calls of sendOtp / verifyOtp are started
MaxCalls == 3

\* the clock advances at most this many ticks
MaxTicks == 2

\* concurrent client tasks (browser tabs)
Procs == {"tab1", "tab2"}

\* e-mail addresses the callers use
Emails == {"a@x.com"}

\* values Math.random().toString(36).slice(-12) + ... can produce
Passwords == {"pw1", "pw2"}

\* one tick of the clock, in milliseconds
TickMs == 5 * 60 * 1000

\* Math.random() yields r / RandDen for r in RandSamples
RandDen == 1000

RandSamples == {0, RandDen - 1}

(* ------------------------------------------------------------------ *)
(* Values                                                              *)
(* ------------------------------------------------------------------ *)

NoCred == "no-cred"

NoAccount == [exists |-> FALSE, password |-> "-", email_confirm |-> FALSE]

NoResp == [status |-> 0, body |-> "-"]

\* faulty variant: the lifetime given in seconds where milliseconds are due
OtpTtlSeconds == 10 * 60

\* `expiresAt = Date.now() + 10 * 60 * 1000`
OtpTtlMs == 10 * 60 * 1000

\* `Math.floor(100000 + Math.random() * 900000)`
GenOtp(r) == 100000 + ((r * 900000) \div RandDen)

\* the codes a caller can type: the generated ones
Codes == {GenOtp(r) : r \in RandSamples}

\* the 400 response of the edge function
InvalidOtpResponse == [status |-> 400, body |-> "Invalid or expired OTP"]

\* the 200 response of the edge function
SuccessResponse == [status |-> 200, body |-> "success"]

(* ------------------------------------------------------------------ *)
(* Text: a string is the sequence of its characters                    *)
(* ------------------------------------------------------------------ *)

\* at most this many runs of uploadFile are started
MaxUploads == 2

\* at most this many runs of downloadFile are started
MaxDownloads == 1

\* at most this many runs of deleteFile are started
MaxDeletes == 1

\* the byte sequences given to the codecs are at most this long
MaxBytes == 3

\* the texts given to the hex decoder are at most this long
MaxText == 3

\* bytes the byte sequences are made of
ByteSamples == {0, 9, 16, 255}

\* characters the texts are made of
TextChars == {"0", "a", "f", "A", "g", "x", "-", " "}

\* the digits of Number.prototype.toString(16); the first ten are the decimal ones
HexDigits ==
    <<"0", "1", "2", "3", "4", "5", "6", "7", "8", "9", "a", "b", "c", "d", "e", "f">>

DecDigits == {HexDigits[i] : i \in 1..10}

\* Number.prototype.toString(radix) of a natural number: no leading zeros
RECURSIVE NumToString(_, _)
NumToString(n, radix) ==
    IF n < radix THEN <<HexDigits[n + 1]>>
    ELSE Append(NumToString(n \div radix, radix), HexDigits[(n % radix) + 1])

\* String.prototype.padStart(n, c)
RECURSIVE PadStart(_, _, _)
PadStart(s, n, c) == IF Len(s) >= n THEN s ELSE PadStart(<<c>> \o s, n, c)

\* the result of a call: a value, or an exception thrown
Returned(v) == [threw |-> FALSE, value |-> v]

Thrown == [threw |-> TRUE, value |-> <<>>]

(* ------------------------------------------------------------------ *)
(* lib/encryption.ts: the codecs.  Bytes are 0..255.                   *)
(* ------------------------------------------------------------------ *)

\* faulty variant: `b.toString(16)` without `.padStart(2, '0')`
HexByteUnpadded(b) == NumToString(b, 16)

\* `b.toString(16).padStart(2, '0')`
HexByte(b) == PadStart(NumToString(b, 16), 2, "0")

\* `Array.from(array).map(...).join('')`
RECURSIVE Uint8ArrayToHex(_)
Uint8ArrayToHex(array) ==
    IF array = <<>> THEN <<>>
    ELSE HexByte(Head(array)) \o Uint8ArrayToHex(Tail(array))

\* the value of a character as a digit of radix 16, or -1: parseInt takes
\* either case
HexDigitValue(c) ==
    IF \E i \in 1..16 : HexDigits[i] = c
    THEN (CHOOSE i \in 1..16 : HexDigits[i] = c) - 1
    ELSE IF c = "A" THEN 10 ELSE IF c = "B" THEN 11 ELSE IF c = "C" THEN 12
    ELSE IF c = "D" THEN 13 ELSE IF c = "E" THEN 14 ELSE IF c = "F" THEN 15
    ELSE -1

\* the white space parseInt skips
WhiteSpace == {" "}

\* the longest prefix of s made of digits of radix 16
RECURSIVE HexPrefix(_)
HexPrefix(s) ==
    IF s = <<>> \/ HexDigitValue(Head(s)) < 0 THEN <<>>
    ELSE <<Head(s)>> \o HexPrefix(Tail(s))

RECURSIVE HexValue(_, _)
HexValue(s, acc) ==
    IF s = <<>> THEN acc
    ELSE HexValue(Tail(s), (acc * 16) + HexDigitValue(Head(s)))

\* parseInt(s, 16): white space, a sign and "0x" are skipped, then the longest
\* prefix of digits counts; without a digit the result is NaN
RECURSIVE ParseInt16(_)
ParseInt16(s) ==
    IF s # <<>> /\ Head(s) \in WhiteSpace THEN ParseInt16(Tail(s))
    ELSE
      LET neg == s # <<>> /\ Head(s) = "-"
          s1  == IF s # <<>> /\ Head(s) \in {"-", "+"} THEN Tail(s) ELSE s
          s2  == IF Len(s1) >= 2 /\ s1[1] = "0" /\ s1[2] \in {"x", "X"}
                 THEN Tail(Tail(s1)) ELSE s1
          d   == HexPrefix(s2)
      IN  IF d = <<>> THEN [nan |-> TRUE, value |-> 0]
          ELSE [nan |-> FALSE,
                value |-> IF neg THEN 0 - HexValue(d, 0) ELSE HexValue(d, 0)]

\* storing a number into a Uint8Array element: NaN becomes 0, the rest is
\* taken modulo 256
ToUint8(n) == IF n.nan THEN 0 ELSE n.value % 256

\* `hex.substr(i, 2)`, i counted from 0
Substr2(hex, i) == SubSeq(hex, i + 1, IF i + 2 <= Len(hex) THEN i + 2 ELSE Len(hex))

\* hexToUint8Array: `new Uint8Array(hex.length / 2)` truncates the length, the
\* loop writes `parseInt(hex.substr(i, 2), 16)` at i / 2 and a write past the
\* end is dropped; no statement of it throws
HexToUint8Array(hex) ==
    Returned([k \in 1..(Len(hex) \div 2) |->
                 ToUint8(ParseInt16(Substr2(hex, 2 * (k - 1))))])

\* the base64 alphabet of btoa / atob
Base64Alphabet ==
    <<"A", "B", "C", "D", "E", "F", "G", "H", "I", "J", "K", "L", "M",
      "N", "O", "P", "Q", "R", "S", "T", "U", "V", "W", "X", "Y", "Z",
      "a", "b", "c", "d", "e", "f", "g", "h", "i", "j", "k", "l", "m",
      "n", "o", "p", "q", "r", "s", "t", "u", "v", "w", "x", "y", "z",
      "0", "1", "2", "3", "4", "5", "6", "7", "8", "9", "+", "/">>

Base64Char(n) == Base64Alphabet[n + 1]

Base64Index(c) == (CHOOSE i \in 1..64 : Base64Alphabet[i] = c) - 1

\* btoa of a string whose characters are all below 256
RECURSIVE Btoa(_)
Btoa(binary) ==
    IF binary = <<>> THEN <<>>
    ELSE IF Len(binary) = 1 THEN
        LET n == binary[1] * 16
        IN  <<Base64Char(n \div 64), Base64Char(n % 64), "=", "=">>
    ELSE IF Len(binary) = 2 THEN
        LET n == ((binary[1] * 256) + binary[2]) * 4
        IN  <<Base64Char(n \div 4096), Base64Char((n \div 64) % 64),
              Base64Char(n % 64), "=">>
    ELSE
        LET n == (binary[1] * 65536) + (binary[2] * 256) + binary[3]
        IN  <<Base64Char(n \div 262144), Base64Char((n \div 4096) % 64),
              Base64Char((n \div 64) % 64), Base64Char(n % 64)>>
            \o Btoa(SubSeq(binary, 4, Len(binary)))

\* `binary += String.fromCharCode(bytes[i])`: the string of the bytes as
\* character codes
FromCharCodes(bytes) == [i \in 1..Len(bytes) |-> bytes[i] % 65536]

\* faulty variant: the loop starts at `i = 1` and leaves the first byte out
ArrayBufferToBase64FromOne(buffer) == Btoa(FromCharCodes(Tail(buffer)))

\* arrayBufferToBase64
ArrayBufferToBase64(buffer) == Btoa(FromCharCodes(buffer))

\* the bytes of a run of base64 digits; the bits left over are dropped
RECURSIVE SextetsToBytes(_)
SextetsToBytes(d) ==
    IF Len(d) < 2 THEN <<>>
    ELSE IF Len(d) = 2 THEN
        <<((Base64Index(d[1]) * 64) + Base64Index(d[2])) \div 16>>
    ELSE IF Len(d) = 3 THEN
        LET n == (((Base64Index(d[1]) * 4096) + (Base64Index(d[2]) * 64))
                    + Base64Index(d[3])) \div 4
        IN  <<n \div 256, n % 256>>
    ELSE
        LET n == (Base64Index(d[1]) * 262144) + (Base64Index(d[2]) * 4096)
                    + (Base64Index(d[3]) * 64) + Base64Index(d[4])
        IN  <<n \div 65536, (n \div 256) % 256, n % 256>>
            \o SextetsToBytes(SubSeq(d, 5, Len(d)))

\* atob: white space is removed, one or two "=" closing a text of a multiple
\* of 4 characters are removed, and what is left must be base64 digits, not
\* 1 modulo 4 of them; the result is the string of the character codes
Atob(base64) ==
    LET t == SelectSeq(base64, LAMBDA c : c \notin WhiteSpace)
        n == Len(t)
        cut == IF n % 4 = 0 /\ n > 0 /\ t[n] = "="
               THEN IF t[n - 1] = "=" THEN 2 ELSE 1
               ELSE 0
        d == SubSeq(t, 1, n - cut)
    IN  IF Len(d) % 4 = 1 THEN Thrown
        ELSE IF \E i \in 1..Len(d) :
                   \A k \in 1..64 : Base64Alphabet[k] # d[i] THEN Thrown
        ELSE Returned(SextetsToBytes(d))

\* base64ToArrayBuffer: `bytes[i] = binary.charCodeAt(i)`
Base64ToArrayBuffer(base64) ==
    LET binary == Atob(base64)
    IN  IF binary.threw THEN Thrown
        ELSE Returned([i \in 1..Len(binary.value) |-> binary.value[i] % 256])

(* ------------------------------------------------------------------ *)
(* lib/encryption.ts: keys, nonces and the cipher (Web Crypto AES-GCM). *)
(* A random value is one no earlier call has returned; a ciphertext is  *)
(* the sealed plaintext with the key and the nonce that sealed it and   *)
(* the state of its authentication tag.                                 *)
(* ------------------------------------------------------------------ *)

\* `length: 256`, in bytes
KeyLen == 256 \div 8

\* `new Uint8Array(12)`
IvLen == 12

\* the n-th value of `len` bytes the random generator returns
RandomBytes(n, len) == [i \in 1..len |-> ((n * 37) + (i * 11)) % 256]

\* generateEncryptionKey: the key is its raw bytes
GenerateEncryptionKey(n) == RandomBytes(n, KeyLen)

\* faulty variant: the same nonce for every file
GenerateIVConstant(n) == RandomBytes(0, IvLen)

\* generateIV
GenerateIV(n) == RandomBytes(n, IvLen)

\* exportKey
ExportKey(key) == key

\* importKey: raw AES keys are 128, 192 or 256 bits long
ImportKey(keyData) ==
    IF Len(keyData) \in {16, 24, 32} THEN Returned(keyData) ELSE Thrown

\* encryptFile
EncryptFile(fileData, key, iv) ==
    [plain |-> fileData, key |-> key, iv |-> iv, tag |-> "ok"]

\* faulty variant: a cipher without authentication decrypts whatever it is
\* given (a wrong key or nonce gives other bytes)
DecryptFileUnauthenticated(encryptedData, key, iv) ==
    IF encryptedData.key = key /\ encryptedData.iv = iv
    THEN Returned(encryptedData.plain)
    ELSE Returned(<<0>> \o encryptedData.plain)

\* decryptFile: fails unless the tag verifies under the key and the nonce
DecryptFile(encryptedData, key, iv) ==
    IF /\ encryptedData.key = key
       /\ encryptedData.iv = iv
       /\ encryptedData.tag = "ok"
    THEN Returned(encryptedData.plain)
    ELSE Thrown

(* ------------------------------------------------------------------ *)
(* Files                                                               *)
(* ------------------------------------------------------------------ *)

\* faulty variant: 50 MB counted in powers of ten
MaxFileSizeDecimal == 50 * 1000 * 1000

\* `50 * 1024 * 1024`
MaxFileSize == 50 * 1024 * 1024

\* `null` where an object is expected
Null == [null |-> TRUE]

\* NULL in a text column
SqlNull == "NULL"

\* `user.id`
UserId == "user1"

\* the files the user can pick: a name is the sequence of its parts between
\* the dots; `data` stands for the content, whatever `size` is
FileSamples ==
    { [name |-> <<"notes">>, type |-> "", size |-> 0, data |-> <<>>],
      [name |-> <<"max", "bin">>, type |-> "application/zip",
       size |-> MaxFileSize, data |-> <<0, 255, 16>>],
      [name |-> <<"big", "mp4">>, type |-> "video/mp4",
       size |-> MaxFileSize + 1, data |-> <<7>>] }

\* `selectedFile.name.split('.').pop() || ''`
FileExtension(name) == name[Len(name)]

\* `${crypto.randomUUID()}.${fileExtension}`
StorageFilename(n, name) == <<"uuid", n, FileExtension(name)>>

\* `${user.id}/${filename}`
StoragePath(user, filename) == <<user, filename>>

\* FileUpload before a file is picked
UpIdle ==
    [picked |-> Null, selectedFile |-> Null, status |-> "idle", toast |-> "-",
     timer |-> FALSE,
     pc |-> "ready", file |-> Null, key |-> <<>>, iv |-> <<>>,
     fileData |-> <<>>, encryptedData |-> Null, exportedKey |-> <<>>,
     filePath |-> <<>>, keyBase64 |-> <<>>, ivHex |-> <<>>]

\* FileList with no download running
DlIdle ==
    [pc |-> "idle", file |-> Null, encryptedData |-> Null, key |-> <<>>,
     outcome |-> "-", delivered |-> Null]

\* FileList with no delete running; `files` is the list the run was given
DelIdle == [pc |-> "idle", file |-> Null, files |-> {}, outcome |-> "-"]

\* no run of the codecs yet
CodecIdle == [pc |-> "start", bytes |-> <<>>, text |-> <<>>, out |-> Returned(<<>>)]

\* faulty variant: `Math.floor(Math.random() * 1000000).toString()`, no padding
OtpTextUnpadded(r) == NumToString((r * 1000000) \div RandDen, 10)

\* `otp = Math.floor(100000 + Math.random() * 900000).toString()`
OtpText(r) == NumToString(GenOtp(r), 10)

\* `otpSchema = z.string().length(6, ...)`
OtpSchemaOk(s) == Len(s) = 6

\* no run of the generator yet
GenIdle == [pc |-> "draw", r |-> 0, otp |-> <<>>, valid |-> FALSE]

VARIABLES
    otps,       \* table otp_verifications: sequence of rows, id = position
    creds,      \* table user_credentials: set of rows
    accounts,   \* identity system (auth.users): by e-mail
    now,        \* the clock, in milliseconds
    pc,         \* where each client task stands
    loc,        \* each client task's (and its edge-function call's) locals
    adv,        \* what the outsider has read out of the public tables
    calls,      \* how many calls of sendOtp / verifyOtp were started
    gen,        \* one run of the code generator: the draw and the code text
    codec,      \* one run of the codecs: the input, the text and the result
    files,      \* table files: set of rows
    blobs,      \* bucket encrypted-files: the object stored at each path
    listed,     \* FileList: the rows fetchFiles put into the component's state
    up,         \* FileUpload: the component's state and uploadFile's locals
    dl,         \* FileList: downloadFile's locals and what it delivered
    del,        \* FileList: deleteFile's locals and its toast
    rng,        \* how many values the random generators have produced
    used,       \* the (key, iv) of every call of encryptFile, in order
    budget,     \* uploads started, downloads started, deletes started
    origin      \* history: the file whose ciphertext uploadFile put at a path

\* the state of the authentication flows
authVars == <<otps, creds, accounts, now, pc, loc, adv, calls>>

\* the state of the runs of the pure functions
pureVars == <<gen, codec>>

\* the state of the file flows
fileVars == <<files, blobs, listed, up, dl, del, rng, used, budget, origin>>

vars == <<authVars, pureVars, fileVars>>

\* the locals of a task; a local is dropped after the last step that reads it
IdleLoc ==
    [email |-> "-", otp |-> 0, password |-> "-", hasCred |-> FALSE,
     otpId |-> 0, otpPassword |-> "-", resolved |-> "-", hasUser |-> FALSE,
     opFailed |-> FALSE, resp |-> NoResp,
     signIns |-> 0, signUps |-> 0, error |-> "-"]

(* ------------------------------------------------------------------ *)
(* The record store                                                    *)
(* ------------------------------------------------------------------ *)

\* faulty variant of the filter: `.gte("expires_at", now)` in place of `.gt`
OtpMatchesGte(r, e, t, n) ==
    /\ r.email = e
    /\ r.otp_code = t
    /\ r.verified = FALSE
    /\ r.expires_at >= n

\* faulty variant of the filter: `.eq("verified", false)` left out
OtpMatchesAnyVerified(r, e, t, n) ==
    /\ r.email = e
    /\ r.otp_code = t
    /\ r.expires_at > n

\* the filter of the edge function's select
OtpMatches(r, e, t, n) ==
    /\ r.email = e
    /\ r.otp_code = t
    /\ r.verified = FALSE
    /\ r.expires_at > n

\* faulty variant of the select: `.order("created_at", { ascending: true })`
OtpSelectOldest(rows, e, t, n) ==
    LET m == {i \in 1..Len(rows) : OtpMatches(rows[i], e, t, n)}
    IN  {i \in m : \A j \in m : rows[j].created_at >= rows[i].created_at}

\* `.order("created_at", desc).limit(1).maybeSingle()`: the ids the select can
\* return; rows with equal created_at are ordered arbitrarily by the store
OtpSelect(rows, e, t, n) ==
    LET m == {i \in 1..Len(rows) : OtpMatches(rows[i], e, t, n)}
    IN  {i \in m : \A j \in m : rows[j].created_at <= rows[i].created_at}

\* faulty variant of the insert: issuing a code invalidates the earlier codes
\* of the e-mail
OtpInsertInvalidating(rows, rec) ==
    Append([i \in 1..Len(rows) |->
               IF rows[i].email = rec.email
               THEN [rows[i] EXCEPT !.verified = TRUE]
               ELSE rows[i]],
           rec)

\* `from('otp_verifications').insert({...})`
OtpInsert(rows, rec) == Append(rows, rec)

\* `from('user_credentials').select('password_hash').eq('email', e).maybeSingle()`
CredSelect(rows, e) ==
    LET m == {r \in rows : r.email = e}
    IN  IF Cardinality(m) = 1
        THEN (CHOOSE r \in m : TRUE).password_hash
        ELSE NoCred

\* faulty variant of the constraint: user_credentials.email without UNIQUE
CredInsertOkNoUnique(rows, e) == TRUE

\* `email TEXT NOT NULL UNIQUE`: whether an insert for e is accepted
CredInsertOk(rows, e) == \A r \in rows : r.email # e

\* faulty variant of the insert: written as an upsert on email
CredInsertUpsert(rows, e, pw) ==
    {r \in rows : r.email # e} \cup {[email |-> e, password_hash |-> pw]}

\* `from('user_credentials').insert({email, password_hash})`
CredInsert(rows, e, pw) ==
    IF CredInsertOk(rows, e)
    THEN rows \cup {[email |-> e, password_hash |-> pw]}
    ELSE rows

(* ------------------------------------------------------------------ *)
(* Initial state                                                       *)
(* ------------------------------------------------------------------ *)

Init ==
    /\ otps = <<>>
    /\ creds = {}
    /\ accounts = [e \in Emails |-> NoAccount]
    /\ now = 0
    /\ pc = [p \in Procs |-> "idle"]
    /\ loc = [p \in Procs |-> IdleLoc]
    /\ adv = [codes |-> {}, passwords |-> {}]
    /\ calls = 0
    /\ gen = GenIdle
    /\ codec = CodecIdle
    /\ files = {}
    /\ blobs = <<>>
    /\ listed = {}
    /\ up = UpIdle
    /\ dl = DlIdle
    /\ rng = 0
    /\ used = <<>>
    /\ del = DelIdle
    /\ budget = [uploads |-> 0, downloads |-> 0, deletes |-> 0]
    /\ origin = <<>>

Goto(p, label) == pc' = [pc EXCEPT ![p] = label]

\* a task starts a call
Call ==
    /\ calls < MaxCalls
    /\ calls' = calls + 1

Return(p) ==
    /\ pc' = [pc EXCEPT ![p] = "idle"]
    /\ loc' = [loc EXCEPT ![p] = IdleLoc]

(* ------------------------------------------------------------------ *)
(* authService.sendOtp                                                 *)
(* ------------------------------------------------------------------ *)

\* generate the code, select the credential, choose the password
SendOtpSelectCred(p) ==
    /\ pc[p] = "idle"
    /\ Call
    /\ \E e \in Emails, r \in RandSamples, g \in Passwords :
          LET existing == CredSelect(creds, e) IN
          loc' = [loc EXCEPT ![p] =
                     [IdleLoc EXCEPT !.email = e,
                                     !.otp = GenOtp(r),
                                     !.hasCred = (existing # NoCred),
                                     !.password = IF existing # NoCred
                                                  THEN existing ELSE g]]
    /\ Goto(p, "so_insert_otp")
    /\ UNCHANGED <<otps, creds, accounts, now, adv>>
    /\ UNCHANGED <<pureVars, fileVars>>

\* insert the OTP row
SendOtpInsertOtp(p) ==
    /\ pc[p] = "so_insert_otp"
    /\ otps' = OtpInsert(otps,
                  [email |-> loc[p].email, otp_code |-> loc[p].otp,
                   password |-> loc[p].password,
                   expires_at |-> now + OtpTtlMs,
                   verified |-> FALSE, created_at |-> now])
    /\ loc' = [loc EXCEPT ![p] =
                  IF loc[p].hasCred
                  THEN [IdleLoc EXCEPT !.email = loc[p].email]
                  ELSE [IdleLoc EXCEPT !.email = loc[p].email,
                                       !.password = loc[p].password]]
    /\ Goto(p, IF loc[p].hasCred THEN "so_email" ELSE "so_insert_cred")
    /\ UNCHANGED <<creds, accounts, now, adv, calls>>
    /\ UNCHANGED <<pureVars, fileVars>>

\* insert the credential row of a new user; a rejected insert is thrown
SendOtpInsertCred(p) ==
    /\ pc[p] = "so_insert_cred"
    /\ creds' = CredInsert(creds, loc[p].email, loc[p].password)
    /\ IF CredInsertOk(creds, loc[p].email)
       THEN /\ Goto(p, "so_email")
            /\ loc' = [loc EXCEPT ![p] = [IdleLoc EXCEPT !.email = loc[p].email]]
       ELSE Return(p)
    /\ UNCHANGED <<otps, accounts, now, adv, calls>>
    /\ UNCHANGED <<pureVars, fileVars>>

\* invoke send-otp-email and return
SendOtpEmail(p) ==
    /\ pc[p] = "so_email"
    /\ Return(p)
    /\ UNCHANGED <<otps, creds, accounts, now, adv, calls>>
    /\ UNCHANGED <<pureVars, fileVars>>

(* ------------------------------------------------------------------ *)
(* The identity system (auth.users)                                    *)
(* ------------------------------------------------------------------ *)

\* `auth.admin.listUsers()` then `users.find(u => u.email === email)`
AccountExists(accts, e) == accts[e].exists

\* `auth.admin.updateUserById(id, {password})`
AdminUpdatePassword(accts, e, pw) ==
    IF accts[e].exists
    THEN [accts EXCEPT ![e].password = pw]
    ELSE accts

\* `auth.admin.createUser({email, password, email_confirm: true, ...})`:
\* rejected when the e-mail is registered already
AdminCreateUser(accts, e, pw) ==
    IF accts[e].exists
    THEN accts
    ELSE [accts EXCEPT ![e] =
             [exists |-> TRUE, password |-> pw, email_confirm |-> TRUE]]

\* `auth.signInWithPassword({email, password})` yields a session
SignInOk(accts, e, pw) == accts[e].exists /\ accts[e].password = pw

\* `auth.signUp({email, password})`: registers an unregistered e-mail
SignUp(accts, e, pw) ==
    IF accts[e].exists
    THEN accts
    ELSE [accts EXCEPT ![e] =
             [exists |-> TRUE, password |-> pw, email_confirm |-> FALSE]]

(* ------------------------------------------------------------------ *)
(* The edge function verify-otp-and-login                              *)
(* ------------------------------------------------------------------ *)

\* the client invokes the function; the function selects the OTP row and
\* answers 400 when there is none
SrvSelectOtpFrom(p, tokens) ==
    /\ pc[p] = "idle"
    /\ Call
    /\ \E e \in Emails, t \in tokens :
          LET found == OtpSelect(otps, e, t, now) IN
          IF found = {}
          THEN /\ loc' = [loc EXCEPT ![p] =
                             [IdleLoc EXCEPT !.email = e, !.otp = t,
                                             !.resp = InvalidOtpResponse]]
               /\ Goto(p, "vo_rejected")
          ELSE /\ \E id \in found :
                     loc' = [loc EXCEPT ![p] =
                                [IdleLoc EXCEPT !.email = e,
                                                !.otpId = id,
                                                !.otpPassword = otps[id].password]]
               /\ Goto(p, "srv_mark")
    /\ UNCHANGED <<otps, creds, accounts, now, adv>>
    /\ UNCHANGED <<pureVars, fileVars>>

\* a caller who may type any code
SrvSelectOtp(p) == SrvSelectOtpFrom(p, Codes)

\* faulty variant: `update({verified: true}).eq("email", email)`
SrvMarkVerifiedByEmail(p) ==
    /\ pc[p] = "srv_mark"
    /\ otps' = [i \in 1..Len(otps) |->
                  IF otps[i].email = loc[p].email
                  THEN [otps[i] EXCEPT !.verified = TRUE] ELSE otps[i]]
    /\ Goto(p, "srv_select_cred")
    /\ UNCHANGED <<creds, accounts, now, loc, adv, calls>>
    /\ UNCHANGED <<pureVars, fileVars>>

\* `update({verified: true}).eq("id", otpData.id)`
SrvMarkVerified(p) ==
    /\ pc[p] = "srv_mark"
    /\ otps' = [otps EXCEPT ![loc[p].otpId].verified = TRUE]
    /\ Goto(p, "srv_select_cred")
    /\ UNCHANGED <<creds, accounts, now, loc, adv, calls>>
    /\ UNCHANGED <<pureVars, fileVars>>

\* `password = credData?.password_hash || otpData.password`
SrvSelectCred(p) ==
    /\ pc[p] = "srv_select_cred"
    /\ LET c == CredSelect(creds, loc[p].email) IN
       loc' = [loc EXCEPT ![p].resolved =
                                 IF c # NoCred THEN c ELSE loc[p].otpPassword,
                          ![p].otpPassword = "-"]
    /\ Goto(p, "srv_list_users")
    /\ UNCHANGED <<otps, creds, accounts, now, adv, calls>>
    /\ UNCHANGED <<pureVars, fileVars>>

\* `auth.admin.listUsers()`
SrvListUsers(p) ==
    /\ pc[p] = "srv_list_users"
    /\ loc' = [loc EXCEPT ![p].hasUser = AccountExists(accounts, loc[p].email)]
    /\ Goto(p, "srv_provision")
    /\ UNCHANGED <<otps, creds, accounts, now, adv, calls>>
    /\ UNCHANGED <<pureVars, fileVars>>

\* update the account's password or create the account; the result of either
\* call is not looked at, and the function answers 200
SrvProvision(p) ==
    /\ pc[p] = "srv_provision"
    /\ accounts' = IF loc[p].hasUser
                   THEN AdminUpdatePassword(accounts, loc[p].email, loc[p].resolved)
                   ELSE AdminCreateUser(accounts, loc[p].email, loc[p].resolved)
    /\ loc' = [loc EXCEPT
                  ![p].resp = SuccessResponse,
                  ![p].hasUser = FALSE,
                  ![p].opFailed = (loc[p].opFailed
                                   \/ (~loc[p].hasUser
                                       /\ AccountExists(accounts, loc[p].email)))]
    /\ Goto(p, "cli_select_cred")
    /\ UNCHANGED <<otps, creds, now, adv, calls>>
    /\ UNCHANGED <<pureVars, fileVars>>

(* ------------------------------------------------------------------ *)
(* authService.verifyOtp, after the function's answer                  *)
(* ------------------------------------------------------------------ *)

\* faulty variant: the function's answer is not looked at
CliRejectedIgnored(p) ==
    /\ pc[p] = "vo_rejected"
    /\ Goto(p, "cli_select_cred")
    /\ UNCHANGED <<otps, creds, accounts, now, loc, adv, calls>>
    /\ UNCHANGED <<pureVars, fileVars>>

\* `if (error || !data?.success) throw ...`, caught: `{data: null, error}`
CliRejected(p) ==
    /\ pc[p] = "vo_rejected"
    /\ Return(p)
    /\ UNCHANGED <<otps, creds, accounts, now, adv, calls>>
    /\ UNCHANGED <<pureVars, fileVars>>

\* select the credential; `credData?.password_hash || <random>`
CliSelectCred(p) ==
    /\ pc[p] = "cli_select_cred"
    /\ \E g \in Passwords :
          LET c == CredSelect(creds, loc[p].email) IN
          /\ loc' = [loc EXCEPT ![p].password = IF c # NoCred THEN c ELSE g,
                                ![p].otpId = 0,
                                ![p].resp = NoResp]
          /\ Goto(p, IF c # NoCred THEN "cli_signin" ELSE "cli_insert_cred")
    /\ UNCHANGED <<otps, creds, accounts, now, adv, calls>>
    /\ UNCHANGED <<pureVars, fileVars>>

\* `await supabase.from('user_credentials').insert(...)`, result not looked at
CliInsertCred(p) ==
    /\ pc[p] = "cli_insert_cred"
    /\ creds' = CredInsert(creds, loc[p].email, loc[p].password)
    /\ loc' = [loc EXCEPT ![p].opFailed =
                  (loc[p].opFailed \/ ~CredInsertOk(creds, loc[p].email))]
    /\ Goto(p, "cli_signin")
    /\ UNCHANGED <<otps, accounts, now, adv, calls>>
    /\ UNCHANGED <<pureVars, fileVars>>

\* first `signInWithPassword`
CliSignIn(p) ==
    /\ pc[p] = "cli_signin"
    /\ Goto(p, IF SignInOk(accounts, loc[p].email, loc[p].password)
                THEN "cli_session" ELSE "cli_signup")
    /\ loc' = [loc EXCEPT ![p].resolved = "-", ![p].signIns = @ + 1]
    /\ UNCHANGED <<otps, creds, accounts, now, adv, calls>>
    /\ UNCHANGED <<pureVars, fileVars>>

\* `signUp`; an "already registered" error is let through
CliSignUp(p) ==
    /\ pc[p] = "cli_signup"
    /\ accounts' = SignUp(accounts, loc[p].email, loc[p].password)
    /\ loc' = [loc EXCEPT ![p].signUps = @ + 1]
    /\ Goto(p, "cli_retry")
    /\ UNCHANGED <<otps, creds, now, adv, calls>>
    /\ UNCHANGED <<pureVars, fileVars>>

\* faulty variant: a failed second sign-in goes back to `signUp`
CliRetrySignInAgain(p) ==
    /\ pc[p] = "cli_retry"
    /\ loc' = [loc EXCEPT ![p].signIns = @ + 1]
    /\ Goto(p, IF SignInOk(accounts, loc[p].email, loc[p].password)
                THEN "cli_session" ELSE "cli_signup")
    /\ UNCHANGED <<otps, creds, accounts, now, adv, calls>>
    /\ UNCHANGED <<pureVars, fileVars>>

\* second `signInWithPassword`; `if (retryError) throw retryError`
CliRetrySignIn(p) ==
    /\ pc[p] = "cli_retry"
    /\ IF SignInOk(accounts, loc[p].email, loc[p].password)
       THEN /\ loc' = [loc EXCEPT ![p].signIns = @ + 1]
            /\ Goto(p, "cli_session")
       ELSE /\ loc' = [loc EXCEPT ![p].signIns = @ + 1,
                                   ![p].error = "retryError"]
            /\ Goto(p, "cli_failed")
    /\ UNCHANGED <<otps, creds, accounts, now, adv, calls>>
    /\ UNCHANGED <<pureVars, fileVars>>

\* the `catch` after a throw of the sign-in part: `return { data: null, error }`
CliFailed(p) ==
    /\ pc[p] = "cli_failed"
    /\ Return(p)
    /\ UNCHANGED <<otps, creds, accounts, now, adv, calls>>
    /\ UNCHANGED <<pureVars, fileVars>>

\* `return { data, error: null }`
CliSession(p) ==
    /\ pc[p] = "cli_session"
    /\ Return(p)
    /\ UNCHANGED <<otps, creds, accounts, now, adv, calls>>
    /\ UNCHANGED <<pureVars, fileVars>>

(* ------------------------------------------------------------------ *)
(* Failing calls to the record store and the identity system           *)
(* ------------------------------------------------------------------ *)

\* the OTP insert fails: `if (dbError) throw dbError`
SendOtpInsertOtpFails(p) ==
    /\ pc[p] = "so_insert_otp"
    /\ Return(p)
    /\ UNCHANGED <<otps, creds, accounts, now, adv, calls>>
    /\ UNCHANGED <<pureVars, fileVars>>

\* the credential insert fails: `if (credError) throw credError`
SendOtpInsertCredFails(p) ==
    /\ pc[p] = "so_insert_cred"
    /\ Return(p)
    /\ UNCHANGED <<otps, creds, accounts, now, adv, calls>>
    /\ UNCHANGED <<pureVars, fileVars>>

\* the OTP select fails: `if (otpError || !otpData)`
SrvSelectOtpFails(p) ==
    /\ pc[p] = "idle"
    /\ Call
    /\ \E e \in Emails, t \in Codes :
          loc' = [loc EXCEPT ![p] =
                     [IdleLoc EXCEPT !.email = e, !.otp = t,
                                     !.resp = InvalidOtpResponse]]
    /\ Goto(p, "vo_rejected")
    /\ UNCHANGED <<otps, creds, accounts, now, adv>>
    /\ UNCHANGED <<pureVars, fileVars>>

\* the update that marks the row fails; its result is not looked at
SrvMarkVerifiedFails(p) ==
    /\ pc[p] = "srv_mark"
    /\ loc' = [loc EXCEPT ![p].opFailed = TRUE]
    /\ Goto(p, "srv_select_cred")
    /\ UNCHANGED <<otps, creds, accounts, now, adv, calls>>
    /\ UNCHANGED <<pureVars, fileVars>>

\* the credential select fails: `credData` is null, the OTP row's password is used
SrvSelectCredFails(p) ==
    /\ pc[p] = "srv_select_cred"
    /\ loc' = [loc EXCEPT ![p].resolved = loc[p].otpPassword,
                          ![p].otpPassword = "-"]
    /\ Goto(p, "srv_list_users")
    /\ UNCHANGED <<otps, creds, accounts, now, adv, calls>>
    /\ UNCHANGED <<pureVars, fileVars>>

\* updateUserById / createUser fails; its result is not looked at
SrvProvisionFails(p) ==
    /\ pc[p] = "srv_provision"
    /\ loc' = [loc EXCEPT ![p].resp = SuccessResponse, ![p].hasUser = FALSE,
                          ![p].opFailed = TRUE]
    /\ Goto(p, "cli_select_cred")
    /\ UNCHANGED <<otps, creds, accounts, now, adv, calls>>
    /\ UNCHANGED <<pureVars, fileVars>>

\* the client's credential insert fails; its result is not looked at
CliInsertCredFails(p) ==
    /\ pc[p] = "cli_insert_cred"
    /\ loc' = [loc EXCEPT ![p].opFailed = TRUE]
    /\ Goto(p, "cli_signin")
    /\ UNCHANGED <<otps, creds, accounts, now, adv, calls>>
    /\ UNCHANGED <<pureVars, fileVars>>

\* `signUp` fails with an error that is not "already registered":
\* `throw signUpError`
CliSignUpFails(p) ==
    /\ pc[p] = "cli_signup"
    /\ loc' = [loc EXCEPT ![p].signUps = @ + 1, ![p].error = "signUpError"]
    /\ Goto(p, "cli_failed")
    /\ UNCHANGED <<otps, creds, accounts, now, adv, calls>>
    /\ UNCHANGED <<pureVars, fileVars>>

(* ------------------------------------------------------------------ *)
(* An outsider using what the row-level-security policies allow        *)
(* ------------------------------------------------------------------ *)

\* the task the outsider drives
Outsider == "tab2"

\* policy "Anyone can read OTP verifications": FOR SELECT USING (true)
AdvReadOtps ==
    /\ adv' = [codes |-> adv.codes \cup {otps[i].otp_code : i \in 1..Len(otps)},
               passwords |-> adv.passwords
                                \cup {otps[i].password : i \in 1..Len(otps)}]
    /\ adv' # adv
    /\ UNCHANGED <<otps, creds, accounts, now, pc, loc, calls>>
    /\ UNCHANGED <<pureVars, fileVars>>

\* policy "Anyone can read credentials for verification": FOR SELECT USING (true)
AdvReadCreds ==
    /\ adv' = [adv EXCEPT !.passwords = @ \cup {r.password_hash : r \in creds}]
    /\ adv' # adv
    /\ UNCHANGED <<otps, creds, accounts, now, pc, loc, calls>>
    /\ UNCHANGED <<pureVars, fileVars>>

\* the outsider invokes verify-otp-and-login with a code it has read
OutsiderSelectOtp == SrvSelectOtpFrom(Outsider, adv.codes)

(* ------------------------------------------------------------------ *)
(* The clock                                                           *)
(* ------------------------------------------------------------------ *)

Tick ==
    /\ now < MaxTicks * TickMs
    /\ now' = now + TickMs
    /\ UNCHANGED <<otps, creds, accounts, pc, loc, adv, calls>>
    /\ UNCHANGED <<pureVars, fileVars>>

\* the steps of a task when every call to the stores and the identity system
\* returns its result
Reliable(p) ==
    \/ SendOtpSelectCred(p)
    \/ SendOtpInsertOtp(p)
    \/ SendOtpInsertCred(p)
    \/ SendOtpEmail(p)
    \/ SrvMarkVerified(p)
    \/ SrvSelectCred(p)
    \/ SrvListUsers(p)
    \/ SrvProvision(p)
    \/ CliRejected(p)
    \/ CliSelectCred(p)
    \/ CliInsertCred(p)
    \/ CliSignIn(p)
    \/ CliSignUp(p)
    \/ CliRetrySignIn(p)
    \/ CliSession(p)
    \/ CliFailed(p)

\* the steps in which such a call fails
Failing(p) ==
    \/ SendOtpInsertOtpFails(p)
    \/ SendOtpInsertCredFails(p)
    \/ SrvSelectOtpFails(p)
    \/ SrvMarkVerifiedFails(p)
    \/ SrvSelectCredFails(p)
    \/ SrvProvisionFails(p)
    \/ CliInsertCredFails(p)
    \/ CliSignUpFails(p)

Next ==
    \/ \E p \in Procs : Reliable(p)
    \/ \E p \in Procs : SrvSelectOtp(p)
    \/ Tick

\* concurrent tabs, every call returning its result
Spec == Init /\ [][Next]_vars

NextFail ==
    \/ \E p \in Procs : Reliable(p)
    \/ \E p \in Procs : SrvSelectOtp(p)
    \/ \E p \in Procs : Failing(p)
    \/ Tick

\* concurrent tabs, calls to the stores and the identity system may fail
SpecFail == Init /\ [][NextFail]_vars

\* every call a task awaits returns at some time, with a result or an error
Fairness == \A p \in Procs : WF_vars(Reliable(p) \/ Failing(p))

NextSignIn ==
    \/ \E p \in Procs : Reliable(p)
    \/ \E p \in Procs : SrvSelectOtp(p)
    \/ \E p \in Procs : SrvProvisionFails(p)
    \/ \E p \in Procs : CliSignUpFails(p)

\* concurrent tabs within the lifetime of a code: calls to the identity system
\* may fail, and every awaited call returns at some time
SpecSignIn == Init /\ [][NextSignIn]_vars /\ Fairness

NextAdv ==
    \/ \E p \in Procs : Reliable(p)
    \/ \E p \in Procs \ {Outsider} : SrvSelectOtp(p)
    \/ OutsiderSelectOtp
    \/ AdvReadOtps
    \/ AdvReadCreds
    \/ Tick

\* one user and an outsider who reads the tables the policies leave open
SpecAdv == Init /\ [][NextAdv]_vars

(* ------------------------------------------------------------------ *)
(* The code generator on its own                                       *)
(* ------------------------------------------------------------------ *)

\* sendOtp draws Math.random() and makes the code text
GenDraw ==
    /\ gen.pc = "draw"
    /\ \E r \in 0..(RandDen - 1) :
          gen' = [pc |-> "typed", r |-> r, otp |-> OtpText(r), valid |-> FALSE]
    /\ UNCHANGED <<authVars, codec, fileVars>>

\* the user types the code into the form, which validates it
GenValidate ==
    /\ gen.pc = "typed"
    /\ gen' = [gen EXCEPT !.pc = "done", !.valid = OtpSchemaOk(gen.otp)]
    /\ UNCHANGED <<authVars, codec, fileVars>>

NextGen ==
    \/ GenDraw
    \/ GenValidate

\* every draw of the generator
SpecGen == Init /\ [][NextGen]_vars

(* ------------------------------------------------------------------ *)
(* The codecs on their own                                             *)
(* ------------------------------------------------------------------ *)

ByteSeqs == UNION {[1..n -> ByteSamples] : n \in 0..MaxBytes}

Texts == UNION {[1..n -> TextChars] : n \in 0..MaxText}

\* uint8ArrayToHex on a byte sequence
CodecHexEncode ==
    /\ codec.pc = "start"
    /\ \E b \in ByteSeqs :
          codec' = [CodecIdle EXCEPT !.pc = "hex", !.bytes = b,
                                     !.text = Uint8ArrayToHex(b)]
    /\ UNCHANGED <<authVars, gen, fileVars>>

\* hexToUint8Array on the text uint8ArrayToHex gave
CodecHexDecode ==
    /\ codec.pc = "hex"
    /\ codec' = [codec EXCEPT !.pc = "hex_back",
                              !.out = HexToUint8Array(codec.text)]
    /\ UNCHANGED <<authVars, gen, fileVars>>

\* arrayBufferToBase64 on a byte sequence
CodecBase64Encode ==
    /\ codec.pc = "start"
    /\ \E b \in ByteSeqs :
          codec' = [CodecIdle EXCEPT !.pc = "base64", !.bytes = b,
                                     !.text = ArrayBufferToBase64(b)]
    /\ UNCHANGED <<authVars, gen, fileVars>>

\* base64ToArrayBuffer on the text arrayBufferToBase64 gave
CodecBase64Decode ==
    /\ codec.pc = "base64"
    /\ codec' = [codec EXCEPT !.pc = "base64_back",
                              !.out = Base64ToArrayBuffer(codec.text)]
    /\ UNCHANGED <<authVars, gen, fileVars>>

\* hexToUint8Array on any text
CodecHexDecodeText ==
    /\ codec.pc = "start"
    /\ \E t \in Texts :
          codec' = [CodecIdle EXCEPT !.pc = "hex_text", !.text = t,
                                     !.out = HexToUint8Array(t)]
    /\ UNCHANGED <<authVars, gen, fileVars>>

NextCodec ==
    \/ CodecHexEncode
    \/ CodecHexDecode
    \/ CodecBase64Encode
    \/ CodecBase64Decode
    \/ CodecHexDecodeText

\* every run of the codecs
SpecCodec == Init /\ [][NextCodec]_vars

(* ------------------------------------------------------------------ *)
(* FileUpload: handleFileSelect and uploadFile.  One run of uploadFile  *)
(* is followed at a time.                                               *)
(* ------------------------------------------------------------------ *)

\* the user picks a file; the input is disabled while an upload runs
HandleFileSelect ==
    /\ up.status \notin {"encrypting", "uploading"}
    /\ \E f \in FileSamples :
          IF f.size > MaxFileSize
          THEN up' = [up EXCEPT !.picked = f, !.toast = "File too large"]
          ELSE up' = [up EXCEPT !.picked = f, !.selectedFile = f,
                               !.status = "idle", !.toast = "-"]
    /\ UNCHANGED <<files, blobs, listed, dl, rng, used, budget>>
    /\ UNCHANGED <<authVars, pureVars, origin, del>>

\* the Upload button: `if (!selectedFile || !user) return`, then
\* `await generateEncryptionKey()`
UploadGenerateKey ==
    /\ up.pc = "ready"
    /\ up.status = "idle"
    /\ up.selectedFile # Null
    /\ budget.uploads < MaxUploads
    /\ budget' = [budget EXCEPT !.uploads = @ + 1]
    /\ up' = [up EXCEPT !.pc = "read", !.status = "encrypting",
                        !.picked = Null, !.toast = "-",
                        !.file = up.selectedFile,
                        !.key = GenerateEncryptionKey(rng)]
    /\ rng' = rng + 1
    /\ UNCHANGED <<files, blobs, listed, dl, used>>
    /\ UNCHANGED <<authVars, pureVars, origin, del>>

\* `iv = generateIV()`, then `await selectedFile.arrayBuffer()`
UploadRead ==
    /\ up.pc = "read"
    /\ up' = [up EXCEPT !.pc = "encrypt", !.iv = GenerateIV(rng),
                        !.fileData = up.file.data]
    /\ rng' = rng + 1
    /\ UNCHANGED <<files, blobs, listed, dl, used, budget>>
    /\ UNCHANGED <<authVars, pureVars, origin, del>>

\* `await encryptFile(fileData, encryptionKey, iv)`
UploadEncrypt ==
    /\ up.pc = "encrypt"
    /\ up' = [up EXCEPT !.pc = "export",
                        !.encryptedData = EncryptFile(up.fileData, up.key, up.iv),
                        !.fileData = <<>>]
    /\ used' = Append(used, <<up.key, up.iv>>)
    /\ UNCHANGED <<files, blobs, listed, dl, rng, budget>>
    /\ UNCHANGED <<authVars, pureVars, origin, del>>

\* `await exportKey(encryptionKey)`
UploadExportKey ==
    /\ up.pc = "export"
    /\ up' = [up EXCEPT !.pc = "put", !.exportedKey = ExportKey(up.key),
                        !.key = <<>>]
    /\ UNCHANGED <<files, blobs, listed, dl, rng, used, budget>>
    /\ UNCHANGED <<authVars, pureVars, origin, del>>

\* the key and the nonce are encoded, the path is made, and the ciphertext is
\* put: `storage.from('encrypted-files').upload(filePath, ...)`
UploadPut ==
    /\ up.pc = "put"
    /\ LET filePath == StoragePath(UserId, StorageFilename(rng, up.file.name))
       IN  /\ filePath \notin DOMAIN blobs
           /\ blobs' = [q \in DOMAIN blobs \cup {filePath} |->
                           IF q = filePath THEN up.encryptedData ELSE blobs[q]]
           /\ up' = [up EXCEPT !.pc = "insert", !.status = "uploading",
                               !.filePath = filePath,
                               !.keyBase64 = ArrayBufferToBase64(up.exportedKey),
                               !.ivHex = Uint8ArrayToHex(up.iv),
                               !.exportedKey = <<>>, !.iv = <<>>,
                               !.encryptedData = Null]
           /\ origin' = [q \in DOMAIN origin \cup {filePath} |->
                            IF q = filePath THEN up.file ELSE origin[q]]
    /\ rng' = rng + 1
    /\ UNCHANGED <<files, listed, dl, used, budget>>
    /\ UNCHANGED <<authVars, pureVars, del>>

\* faulty variant: `original_filename: filename`, the generated name
UploadInsertGeneratedName ==
    /\ up.pc = "insert"
    /\ files' = files \cup
          { [id |-> <<"row", rng>>,
             user_id |-> UserId,
             filename |-> up.filePath[2],
             original_filename |-> up.filePath[2],
             storage_path |-> up.filePath,
             file_size |-> up.file.size,
             mime_type |-> up.file.type,
             encrypted_key |-> up.keyBase64,
             iv |-> up.ivHex,
             uploaded_at |-> now] }
    /\ up' = [up EXCEPT !.pc = "done", !.keyBase64 = <<>>, !.ivHex = <<>>]
    /\ rng' = rng + 1
    /\ UNCHANGED <<blobs, listed, dl, used, budget>>
    /\ UNCHANGED <<authVars, pureVars, origin, del>>

\* `if (uploadError) throw`, then `from('files').insert({...})`
UploadInsert ==
    /\ up.pc = "insert"
    /\ files' = files \cup
          { [id |-> <<"row", rng>>,
             user_id |-> UserId,
             filename |-> up.filePath[2],
             original_filename |-> up.file.name,
             storage_path |-> up.filePath,
             file_size |-> up.file.size,
             mime_type |-> up.file.type,
             encrypted_key |-> up.keyBase64,
             iv |-> up.ivHex,
             uploaded_at |-> now] }
    /\ up' = [up EXCEPT !.pc = "done", !.keyBase64 = <<>>, !.ivHex = <<>>]
    /\ rng' = rng + 1
    /\ UNCHANGED <<blobs, listed, dl, used, budget>>
    /\ UNCHANGED <<authVars, pureVars, origin, del>>

\* `if (dbError) throw`, then the success status and toast, and the timer
UploadDone ==
    /\ up.pc = "done"
    /\ up' = [up EXCEPT !.pc = "ready", !.status = "success",
                        !.toast = "Upload complete", !.timer = TRUE,
                        !.file = Null, !.filePath = <<>>]
    /\ UNCHANGED <<files, blobs, listed, dl, rng, used, budget>>
    /\ UNCHANGED <<authVars, pureVars, origin, del>>

\* the `setTimeout` callback, 2 seconds after a success
UploadReset ==
    /\ up.timer
    /\ up.pc = "ready"
    /\ up' = [up EXCEPT !.timer = FALSE, !.selectedFile = Null,
                        !.picked = Null, !.toast = "-",
                        !.status = "idle"]
    /\ UNCHANGED <<files, blobs, listed, dl, rng, used, budget>>
    /\ UNCHANGED <<authVars, pureVars, origin, del>>

(* ------------------------------------------------------------------ *)
(* FileList: fetchFiles and downloadFile.  One run of downloadFile is   *)
(* followed at a time.                                                  *)
(* ------------------------------------------------------------------ *)

\* `from("files").select("*").eq("user_id", user.id)`
FetchFiles ==
    /\ dl.pc = "idle"
    /\ listed' = {f \in files : f.user_id = UserId}
    /\ listed' # listed
    /\ UNCHANGED <<files, blobs, up, dl, rng, used, budget>>
    /\ UNCHANGED <<authVars, pureVars, origin, del>>

\* the `catch` and `finally` of downloadFile
DownloadFailed == [DlIdle EXCEPT !.outcome = "Download failed"]

\* the Download button: `storage.from("encrypted-files").download(path)`
DownloadGet ==
    /\ dl.pc = "idle"
    /\ budget.downloads < MaxDownloads
    /\ budget' = [budget EXCEPT !.downloads = @ + 1]
    /\ \E file \in listed :
          IF file.storage_path \in DOMAIN blobs
          THEN dl' = [DlIdle EXCEPT !.pc = "import_key", !.file = file,
                            !.encryptedData = blobs[file.storage_path]]
          ELSE dl' = DownloadFailed
    /\ UNCHANGED <<files, blobs, listed, up, rng, used>>
    /\ UNCHANGED <<authVars, pureVars, origin, del>>

\* `if (downloadError) throw`, `await fileData.arrayBuffer()`, decode the key
\* and `await importKey(keyArrayBuffer)`
DownloadImportKey ==
    /\ dl.pc = "import_key"
    /\ LET keyArrayBuffer == Base64ToArrayBuffer(dl.file.encrypted_key)
           decryptionKey == IF keyArrayBuffer.threw THEN Thrown
                            ELSE ImportKey(keyArrayBuffer.value)
       IN  IF decryptionKey.threw
           THEN dl' = DownloadFailed
           ELSE dl' = [dl EXCEPT !.pc = "decrypt", !.key = decryptionKey.value]
    /\ UNCHANGED <<files, blobs, listed, up, rng, used, budget>>
    /\ UNCHANGED <<authVars, pureVars, origin, del>>

\* decode the nonce, `await decryptFile(...)`, then hand the bytes over as a
\* Blob of type `file.mime_type || "application/octet-stream"` under the
\* name `file.original_filename`
DownloadDecrypt ==
    /\ dl.pc = "decrypt"
    /\ LET iv == HexToUint8Array(dl.file.iv)
           decryptedData == IF iv.threw THEN Thrown
                            ELSE DecryptFile(dl.encryptedData, dl.key, iv.value)
       IN  IF decryptedData.threw
           THEN dl' = DownloadFailed
           ELSE dl' = [DlIdle EXCEPT
                          !.outcome = "Download complete",
                          !.delivered =
                              [bytes |-> decryptedData.value,
                               type |-> IF dl.file.mime_type \in {"", SqlNull}
                                        THEN "application/octet-stream"
                                        ELSE dl.file.mime_type,
                               download |-> dl.file.original_filename]]
    /\ UNCHANGED <<files, blobs, listed, up, rng, used, budget>>
    /\ UNCHANGED <<authVars, pureVars, origin, del>>

NextFiles ==
    \/ HandleFileSelect
    \/ UploadGenerateKey
    \/ UploadRead
    \/ UploadEncrypt
    \/ UploadExportKey
    \/ UploadPut
    \/ UploadInsert
    \/ UploadDone
    \/ UploadReset
    \/ FetchFiles
    \/ DownloadGet
    \/ DownloadImportKey
    \/ DownloadDecrypt

\* one user uploading and downloading, every call returning its result
SpecFiles == Init /\ [][NextFiles]_vars

(* ------------------------------------------------------------------ *)
(* Stores that hand out altered objects and rows                       *)
(* ------------------------------------------------------------------ *)

\* bits of a plaintext changed
FlipBits(data) ==
    IF data = <<>> THEN <<>> ELSE [data EXCEPT ![1] = (data[1] + 128) % 256]

\* what an altered store can hold at q: the ciphertext with bits changed, so
\* that its tag no longer verifies, or the ciphertext of another path
AlteredBlobs(q) ==
    {[blobs[q] EXCEPT !.plain = FlipBits(blobs[q].plain), !.tag = "bad"]}
        \cup {blobs[o] : o \in DOMAIN blobs \ {q}}

\* texts a row's encrypted_key can be replaced by: another row's, and one
\* with a character that is not base64
AlteredKeyTexts(row) ==
    {o.encrypted_key : o \in files \ {row}}
        \cup {<<"-">> \o Tail(row.encrypted_key)}

\* texts a row's iv can be replaced by: another row's, and one cut short
AlteredIvTexts(row) ==
    {o.iv : o \in files \ {row}}
        \cup {SubSeq(row.iv, 1, Len(row.iv) - 1)}

\* what an altered table can hold for a row: the row with another key text
\* or another nonce text
AlteredRows(row) ==
    {[row EXCEPT !.encrypted_key = t] : t \in AlteredKeyTexts(row)}
        \cup {[row EXCEPT !.iv = t] : t \in AlteredIvTexts(row)}

\* fetchFiles when a row of the table was altered
FetchFilesAltered ==
    /\ dl.pc = "idle"
    /\ \E row \in {f \in files : f.user_id = UserId} :
          \E bad \in AlteredRows(row) :
              listed' = ({f \in files : f.user_id = UserId} \ {row}) \cup {bad}
    /\ listed' # listed
    /\ UNCHANGED <<files, blobs, up, dl, rng, used, budget>>
    /\ UNCHANGED <<authVars, pureVars, origin, del>>

\* the Download button when the object at the path was altered
DownloadGetAltered ==
    /\ dl.pc = "idle"
    /\ budget.downloads < MaxDownloads
    /\ budget' = [budget EXCEPT !.downloads = @ + 1]
    /\ \E file \in listed :
          /\ file.storage_path \in DOMAIN blobs
          /\ \E bad \in AlteredBlobs(file.storage_path) :
                dl' = [DlIdle EXCEPT !.pc = "import_key", !.file = file,
                                     !.encryptedData = bad]
    /\ UNCHANGED <<files, blobs, listed, up, rng, used>>
    /\ UNCHANGED <<authVars, pureVars, origin, del>>

NextTamper ==
    \/ NextFiles
    \/ FetchFilesAltered
    \/ DownloadGetAltered

\* the same, with stores that may hand out altered objects and rows
SpecTamper == Init /\ [][NextTamper]_vars

(* ------------------------------------------------------------------ *)
(* Failing calls to the bucket and the files table                     *)
(* ------------------------------------------------------------------ *)

\* the `catch` of uploadFile: the error status and toast; the selected file
\* stays
UploadFailed ==
    [up EXCEPT !.pc = "ready", !.status = "error", !.toast = "Upload failed",
               !.file = Null, !.key = <<>>, !.iv = <<>>, !.fileData = <<>>,
               !.encryptedData = Null, !.exportedKey = <<>>,
               !.filePath = <<>>, !.keyBase64 = <<>>, !.ivHex = <<>>]

\* faulty variant: the result of the put is not looked at
UploadPutFailsIgnored ==
    /\ up.pc = "put"
    /\ up' = [up EXCEPT !.pc = "insert", !.status = "uploading",
                        !.filePath = StoragePath(UserId,
                                        StorageFilename(rng, up.file.name)),
                        !.keyBase64 = ArrayBufferToBase64(up.exportedKey),
                        !.ivHex = Uint8ArrayToHex(up.iv),
                        !.exportedKey = <<>>, !.iv = <<>>,
                        !.encryptedData = Null]
    /\ rng' = rng + 1
    /\ UNCHANGED <<files, blobs, listed, dl, used, budget>>
    /\ UNCHANGED <<authVars, pureVars, origin, del>>

\* the put fails: `if (uploadError) throw uploadError`
UploadPutFails ==
    /\ up.pc = "put"
    /\ up' = UploadFailed
    /\ rng' = rng + 1
    /\ UNCHANGED <<files, blobs, listed, dl, used, budget>>
    /\ UNCHANGED <<authVars, pureVars, origin, del>>

\* faulty variant: a failed insert takes the object out of the bucket again
UploadInsertFailsCompensated ==
    /\ up.pc = "insert"
    /\ blobs' = [q \in DOMAIN blobs \ {up.filePath} |-> blobs[q]]
    /\ up' = UploadFailed
    /\ UNCHANGED <<files, listed, dl, rng, used, budget>>
    /\ UNCHANGED <<authVars, pureVars, origin, del>>

\* the insert fails: `if (dbError) throw dbError`
UploadInsertFails ==
    /\ up.pc = "insert"
    /\ up' = UploadFailed
    /\ UNCHANGED <<files, blobs, listed, dl, rng, used, budget>>
    /\ UNCHANGED <<authVars, pureVars, origin, del>>

NextUpload ==
    \/ NextFiles
    \/ UploadPutFails
    \/ UploadInsertFails

\* one user uploading and downloading, puts and inserts may fail
SpecUpload == Init /\ [][NextUpload]_vars

(* ------------------------------------------------------------------ *)
(* FileList: deleteFile.  One run of deleteFile is followed at a time.  *)
(* ------------------------------------------------------------------ *)

\* `storage.from("encrypted-files").remove([path])`: a path with no object is
\* no error
StorageRemove(objects, path) == [q \in DOMAIN objects \ {path} |-> objects[q]]

\* the `catch` of deleteFile
DeleteFailed == [DelIdle EXCEPT !.outcome = "Delete failed"]

\* the Delete button of a listed file (hidden while that file is downloaded):
\* the object is removed
DeleteRemoveBlob ==
    /\ del.pc = "idle"
    /\ budget.deletes < MaxDeletes
    /\ budget' = [budget EXCEPT !.deletes = @ + 1]
    /\ \E file \in listed :
          /\ IF dl.file = Null THEN TRUE ELSE dl.file.id # file.id
          /\ blobs' = StorageRemove(blobs, file.storage_path)
          /\ del' = [DelIdle EXCEPT !.pc = "row", !.file = file, !.files = listed]
    /\ UNCHANGED <<files, listed, up, dl, rng, used>>
    /\ UNCHANGED <<authVars, pureVars, origin>>

\* faulty variant: the result of the removal is not looked at
DeleteRemoveBlobFailsIgnored ==
    /\ del.pc = "idle"
    /\ budget.deletes < MaxDeletes
    /\ budget' = [budget EXCEPT !.deletes = @ + 1]
    /\ \E file \in listed :
          /\ IF dl.file = Null THEN TRUE ELSE dl.file.id # file.id
          /\ del' = [DelIdle EXCEPT !.pc = "row", !.file = file, !.files = listed]
    /\ UNCHANGED <<files, blobs, listed, up, dl, rng, used>>
    /\ UNCHANGED <<authVars, pureVars, origin>>

\* the removal fails: `if (storageError) throw storageError`
DeleteRemoveBlobFails ==
    /\ del.pc = "idle"
    /\ budget.deletes < MaxDeletes
    /\ budget' = [budget EXCEPT !.deletes = @ + 1]
    /\ \E file \in listed :
          /\ IF dl.file = Null THEN TRUE ELSE dl.file.id # file.id
          /\ del' = DeleteFailed
    /\ UNCHANGED <<files, blobs, listed, up, dl, rng, used>>
    /\ UNCHANGED <<authVars, pureVars, origin>>

\* `from("files").delete().eq("id", file.id)`, then
\* `setFiles(files.filter((f) => f.id !== file.id))` and the toast
DeleteRow ==
    /\ del.pc = "row"
    /\ files' = {f \in files : f.id # del.file.id}
    /\ listed' = {f \in del.files : f.id # del.file.id}
    /\ del' = [DelIdle EXCEPT !.outcome = "File deleted"]
    /\ UNCHANGED <<blobs, up, dl, rng, used, budget>>
    /\ UNCHANGED <<authVars, pureVars, origin>>

\* the delete of the row fails: `if (dbError) throw dbError`
DeleteRowFails ==
    /\ del.pc = "row"
    /\ del' = DeleteFailed
    /\ UNCHANGED <<files, blobs, listed, up, dl, rng, used, budget>>
    /\ UNCHANGED <<authVars, pureVars, origin>>

NextDelete ==
    \/ NextUpload
    \/ DeleteRemoveBlob
    \/ DeleteRemoveBlobFails
    \/ DeleteRow
    \/ DeleteRowFails

\* one user uploading, downloading and deleting, calls to the bucket and the
\* table may fail
SpecDelete == Init /\ [][NextDelete]_vars

(* ------------------------------------------------------------------ *)
(* Vocabulary of the properties                                        *)
(* ------------------------------------------------------------------ *)

\* the edge function has answered 200 to p and p's client code has not gone on
Answered(p) == pc[p] = "cli_select_cred"

\* a row that is neither verified nor expired at time n
Outstanding(r, n) == r.verified = FALSE /\ r.expires_at > n

\* the rows of user_credentials for e
CredRows(rows, e) == {r \in rows : r.email = e}

\* why a submitted (e, t) has no usable row at time n, or "live" when it has one
Classify(rows, e, t, n) ==
    LET same == {i \in 1..Len(rows) : rows[i].email = e /\ rows[i].otp_code = t}
    IN  IF \E i \in same : Outstanding(rows[i], n) THEN "live"
        ELSE IF \E i \in same : rows[i].verified THEN "used"
        ELSE IF same # {} THEN "expired"
        ELSE "wrong"

\* a step of sendOtp by some task
SendOtpStep ==
    \E p \in Procs :
        \/ pc[p] = "idle" /\ pc'[p] = "so_insert_otp"
        \/ pc[p] \in {"so_insert_otp", "so_insert_cred", "so_email"} /\ pc'[p] # pc[p]

(* ------------------------------------------------------------------ *)
(* Properties                                                          *)
(* ------------------------------------------------------------------ *)

\* C1: OTP single-use.  Once a call has been answered 200 on a row that is the
\* only row with its e-mail and code, a call that starts afterwards with the
\* same e-mail and code is rejected with "Invalid or expired OTP".
C1_SingleUse ==
    [][\A p, q \in Procs :
          LET r == otps[loc[p].otpId] IN
          ( /\ p # q
            /\ Answered(p)
            /\ pc[q] = "idle"
            /\ pc'[q] \in {"srv_mark", "vo_rejected"}
            /\ Cardinality({i \in 1..Len(otps) :
                              otps[i].email = r.email
                              /\ otps[i].otp_code = r.otp_code}) = 1
            /\ IF pc'[q] = "vo_rejected"
               THEN loc'[q].email = r.email /\ loc'[q].otp = r.otp_code
               ELSE loc'[q].otpId = loc[p].otpId )
          => (pc'[q] = "vo_rejected" /\ loc'[q].resp = InvalidOtpResponse)]_vars

\* C2: OTP expiry.  A call gets past the select only on a row whose expires_at
\* is strictly later than the time of the call.
C2_ExpiryRespected ==
    [][\A p \in Procs :
          (pc[p] = "idle" /\ pc'[p] = "srv_mark")
          => otps[loc'[p].otpId].expires_at > now]_vars

\* a call is rejected although an unverified row carries its e-mail and code:
\* the row expires at exactly the time of the call
C2_Witness ==
    \E p \in Procs :
        /\ pc[p] = "vo_rejected"
        /\ \E i \in 1..Len(otps) :
              /\ otps[i].email = loc[p].email
              /\ otps[i].otp_code = loc[p].otp
              /\ otps[i].verified = FALSE
              /\ otps[i].expires_at = now

\* C3: authentication soundness.  The outsider, who was sent no code, is never
\* answered 200 by verify-otp-and-login and never holds a password that signs in.
C3_OutsiderNeverAuthenticates ==
    /\ ~Answered(Outsider)
    /\ \A e \in Emails : \A w \in adv.passwords : ~SignInOk(accounts, e, w)

\* C4: requestCode does not invalidate earlier codes.  A step of sendOtp leaves
\* every row that was there unchanged, and a code outstanding before the step
\* still selects a row after it.
C4_NoInvalidation ==
    [][SendOtpStep =>
          \A i \in 1..Len(otps) :
              /\ i <= Len(otps')
              /\ otps'[i] = otps[i]
              /\ Outstanding(otps[i], now)
                    => OtpSelect(otps', otps[i].email, otps[i].otp_code, now) # {}]_vars

\* two outstanding codes for one e-mail, the earlier one still selectable
C4_Witness ==
    /\ Len(otps) >= 2
    /\ otps[1].email = otps[2].email
    /\ otps[1].otp_code # otps[2].otp_code
    /\ Outstanding(otps[1], now)
    /\ Outstanding(otps[2], now)
    /\ OtpSelect(otps, otps[1].email, otps[1].otp_code, now) = {1}

\* C5: a CredentialRecord is created at most once per e-mail.  No state holds two
\* rows for an e-mail, and the rows of an e-mail change only from none to one.
C5_CredentialCreatedOnce ==
    [][\A e \in Emails :
          /\ Cardinality(CredRows(creds', e)) <= 1
          /\ CredRows(creds', e) # CredRows(creds, e) => CredRows(creds, e) = {}]_vars

\* two simultaneous requests for a new e-mail: one has created the row, the
\* other is about to insert its own password
C5_Witness ==
    \E p \in Procs :
        /\ pc[p] = "so_insert_cred"
        /\ CredSelect(creds, loc[p].email) # NoCred
        /\ CredSelect(creds, loc[p].email) # loc[p].password

\* C6: the credential is never rotated.  The password selected for an e-mail
\* that has a credential is the same after every step.
C6_CredentialNeverRotated ==
    [][\A e \in Emails :
          CredSelect(creds, e) # NoCred
          => CredSelect(creds', e) = CredSelect(creds, e)]_vars

\* a client that generated a password of its own has run its insert, and the
\* credential is still the one created before
C6_Witness ==
    \E p \in Procs :
        /\ pc[p] = "cli_signin"
        /\ CredSelect(creds, loc[p].email) # NoCred
        /\ CredSelect(creds, loc[p].email) # loc[p].password

\* C7: when the edge function answers 200, the account exists and its password
\* is the resolved one.
C7_AccountCarriesResolvedPassword ==
    [][\A p \in Procs :
          (pc[p] = "srv_provision" /\ pc'[p] = "cli_select_cred")
          => /\ accounts'[loc[p].email].exists
             /\ accounts'[loc[p].email].password = loc[p].resolved]_vars

\* C8: the password the client signs in with is the one the server resolved.
C8_ClientUsesResolvedPassword ==
    \A p \in Procs :
        pc[p] = "cli_signin" => loc[p].password = loc[p].resolved

\* C9: all failures surface.  No call in which an operation failed is answered
\* 200 or ends with a session.
C9_FailuresSurface ==
    \A p \in Procs :
        pc[p] \in {"cli_select_cred", "cli_session"} => ~loc[p].opFailed

\* C10: one generic failure.  A call whose code is wrong, expired or used is
\* rejected, with the one response {400, "Invalid or expired OTP"}.
C10_GenericFailure ==
    [][\A p \in Procs :
          ( /\ pc[p] = "idle"
            /\ pc'[p] \in {"srv_mark", "vo_rejected"}
            /\ \/ pc'[p] = "srv_mark"
                  /\ Classify(otps, loc'[p].email,
                              otps[loc'[p].otpId].otp_code, now) # "live"
               \/ pc'[p] = "vo_rejected"
                  /\ Classify(otps, loc'[p].email, loc'[p].otp, now) # "live" )
          => (pc'[p] = "vo_rejected" /\ loc'[p].resp = InvalidOtpResponse)]_vars

\* an expired code and a wrong code have been rejected, with the same response
C10_Witness ==
    \E p, q \in Procs :
        /\ pc[p] = "vo_rejected"
        /\ pc[q] = "vo_rejected"
        /\ Classify(otps, loc[p].email, loc[p].otp, now) = "expired"
        /\ Classify(otps, loc[q].email, loc[q].otp, now) = "wrong"
        /\ loc[p].resp = loc[q].resp

\* C11 (as stated): the code is 6 decimal digits drawn from the whole range
\* 000000-999999.  The code never decreases when the draw grows, so if any
\* code began with a zero the code of the smallest draw would.
C11_WholeRange ==
    gen.pc # "draw" =>
        /\ Len(gen.otp) = 6
        /\ \A i \in 1..Len(gen.otp) : gen.otp[i] \in DecDigits
        /\ gen.r = 0 => gen.otp[1] = "0"

\* C11 (amended): the code is always exactly 6 decimal digits and its first
\* digit is never 0 (the range is 100000-999999); the form accepts it.
C11_SixDigitsNoLeadingZero ==
    /\ gen.pc # "draw" =>
          /\ Len(gen.otp) = 6
          /\ \A i \in 1..Len(gen.otp) : gen.otp[i] \in DecDigits
          /\ gen.otp[1] # "0"
    /\ gen.pc = "done" => gen.valid

\* the smallest draw has given the code 100000, which the form accepted
C11_Witness ==
    /\ gen.pc = "done"
    /\ gen.r = 0
    /\ gen.otp = <<"1", "0", "0", "0", "0", "0">>
    /\ gen.valid

\* C12: every OtpRecord that requestCode persists has verified = false and
\* expires_at equal to the issuing time plus exactly 600 seconds.
C12_IssuedRecord ==
    [][Len(otps') > Len(otps) =>
          LET r == otps'[Len(otps')]
          IN  /\ Len(otps') = Len(otps) + 1
              /\ r.verified = FALSE
              /\ r.created_at = now
              /\ r.expires_at = now + (600 * 1000)]_vars

\* a record issued after the clock has advanced is unverified and expires 600
\* seconds after its issue
C12_Witness ==
    \E i \in 1..Len(otps) :
        /\ otps[i].created_at > 0
        /\ otps[i].verified = FALSE
        /\ otps[i].expires_at = otps[i].created_at + (600 * 1000)

\* the edge function has matched a record for p and not answered yet
SrvAfterMark == {"srv_select_cred", "srv_list_users", "srv_provision"}

\* C13: OtpRecord lifecycle.  No step deletes a record or changes another of
\* its fields; verified never goes back to false; it becomes true only in the
\* marking step of a call that matched that very record, and that call goes
\* on to answer success.
C13_Lifecycle ==
    [][/\ Len(otps') >= Len(otps)
       /\ \A i \in 1..Len(otps) :
             /\ [otps'[i] EXCEPT !.verified = FALSE]
                    = [otps[i] EXCEPT !.verified = FALSE]
             /\ otps[i].verified => otps'[i].verified
             /\ (~otps[i].verified /\ otps'[i].verified) =>
                    \E p \in Procs :
                        /\ pc[p] = "srv_mark"
                        /\ pc'[p] = "srv_select_cred"
                        /\ loc[p].otpId = i
                        /\ otps[i].email = loc[p].email
       /\ \A p \in Procs :
             pc[p] \in SrvAfterMark /\ pc'[p] # pc[p] =>
                 \/ pc'[p] \in SrvAfterMark
                 \/ pc'[p] = "cli_select_cred" /\ loc'[p].resp = SuccessResponse]_vars

\* a call has matched and marked one of two records of an e-mail and has been
\* answered success; the other record is still unverified
C13_Witness ==
    \E p \in Procs, i, j \in 1..Len(otps) :
        /\ Answered(p)
        /\ loc[p].otpId = i
        /\ otps[i].verified
        /\ otps[j].email = otps[i].email
        /\ ~otps[j].verified

\* C19: codec round trip.  Decoding the hex text of a byte sequence gives the
\* sequence back, and so does decoding its base64 text; the hex text is in
\* lower case and has exactly two characters for each byte.
C19_CodecRoundTrip ==
    /\ codec.pc \in {"hex", "hex_back"} =>
          /\ Len(codec.text) = 2 * Len(codec.bytes)
          /\ \A i \in 1..Len(codec.text) :
                \E k \in 1..16 : codec.text[i] = HexDigits[k]
    /\ codec.pc \in {"hex_back", "base64_back"} =>
          /\ ~codec.out.threw
          /\ codec.out.value = codec.bytes

\* a sequence of the greatest length with a byte below 16 in it has made the
\* round trip through hex
C19_Witness ==
    /\ codec.pc = "hex_back"
    /\ Len(codec.bytes) = MaxBytes
    /\ \E i \in 1..Len(codec.bytes) : codec.bytes[i] < 16
    /\ codec.out.value = codec.bytes

\* C20: hex decoding fails, returning no byte sequence, whenever its input
\* has an odd length or contains a character that is not a hex digit.
C20_MalformedHexRejected ==
    ( /\ codec.pc = "hex_text"
      /\ \/ Len(codec.text) % 2 = 1
         \/ \E i \in 1..Len(codec.text) : HexDigitValue(codec.text[i]) < 0 )
    => codec.out.threw

\* the file that uploadFile read for the record a download is working on
Original(d) == origin[d.file.storage_path]

\* C14 (as stated): a download of a record that an upload persisted does not
\* fail, and it delivers the original bytes under the original filename and
\* with the original MIME type.
C14_RoundTrip ==
    [][dl' # dl =>
          /\ dl'.outcome # "Download failed"
          /\ (dl.pc = "decrypt" /\ dl'.pc = "idle") =>
                dl'.delivered = [bytes |-> Original(dl).data,
                                 type |-> Original(dl).type,
                                 download |-> Original(dl).name]]_vars

\* C14 (amended): the same, with the MIME type application/octet-stream when
\* the original file has none (an empty type).
C14_RoundTripDefaultType ==
    [][dl' # dl =>
          /\ dl'.outcome # "Download failed"
          /\ (dl.pc = "decrypt" /\ dl'.pc = "idle") =>
                dl'.delivered =
                    [bytes |-> Original(dl).data,
                     type |-> IF Original(dl).type = ""
                              THEN "application/octet-stream"
                              ELSE Original(dl).type,
                     download |-> Original(dl).name]]_vars

\* the file of exactly 50 MiB has been uploaded and downloaded: its bytes, its
\* name and its type were delivered
C14_Witness ==
    /\ dl.outcome = "Download complete"
    /\ dl.delivered = [bytes |-> <<0, 255, 16>>, type |-> "application/zip",
                       download |-> <<"max", "bin">>]
    /\ \E r \in files : r.file_size = 50 * 1024 * 1024

C16_SizeLimit ==
    [][/\ (up'.picked # Null /\ up'.picked # up.picked) =>
             IF up'.picked.size > 50 * 1024 * 1024
             THEN /\ up'.selectedFile = up.selectedFile
                  /\ up'.toast = "File too large"
                  /\ UNCHANGED <<files, blobs, used, rng>>
             ELSE up'.selectedFile = up'.picked
       /\ up'.selectedFile # Null => up'.selectedFile.size <= 50 * 1024 * 1024
       /\ up'.file # Null => up'.file.size <= 50 * 1024 * 1024
       /\ \A r \in files' : r.file_size <= 50 * 1024 * 1024
       /\ \A q \in DOMAIN origin' : origin'[q].size <= 50 * 1024 * 1024]_vars

\* a file of exactly 50 MiB has been recorded, and one of a byte more has just
\* been turned down
C16_Witness ==
    /\ \E r \in files : r.file_size = 50 * 1024 * 1024
    /\ up.picked # Null
    /\ up.picked.size = (50 * 1024 * 1024) + 1
    /\ up.toast = "File too large"
    /\ up.selectedFile # up.picked

\* C17: key and nonce freshness.  Every encryption is made with a key of 256
\* bits and a nonce of 96 bits that no earlier encryption was made with, so
\* no (key, nonce) pair is used twice.
C17_FreshKeyAndNonce ==
    /\ \A i \in 1..Len(used) :
          /\ Len(used[i][1]) * 8 = 256
          /\ Len(used[i][2]) * 8 = 96
    /\ \A i, j \in 1..Len(used) :
          i < j => /\ used[i] # used[j]
                   /\ used[i][1] # used[j][1]
                   /\ used[i][2] # used[j][2]

\* two files have been encrypted
C17_Witness ==
    /\ Len(used) >= 2
    /\ used[1] # used[2]

\* the object, the key and the nonce a download works on do not belong
\* together: the object's tag does not verify, or the record's key or nonce
\* does not decode to the one that sealed the object
Mismatch(d) ==
    LET k == Base64ToArrayBuffer(d.file.encrypted_key)
        n == HexToUint8Array(d.file.iv)
    IN  \/ d.encryptedData.tag # "ok"
        \/ k.threw
        \/ k.value # d.encryptedData.key
        \/ n.threw
        \/ n.value # d.encryptedData.iv

\* C18: mismatch and tamper detection.  A download working on an altered
\* object, or with a key or nonce that did not seal it, ends as a failure:
\* it delivers nothing and does not fetch or decrypt again.
C18_MismatchFails ==
    [][(dl' # dl /\ dl.pc \in {"import_key", "decrypt"} /\ Mismatch(dl)) =>
          /\ dl'.delivered = Null
          /\ dl'.outcome # "Download complete"
          /\ dl.pc = "decrypt" => dl'.pc = "idle"
          /\ dl'.pc = "idle" => dl'.outcome = "Download failed"
          /\ budget'.downloads = budget.downloads]_vars

\* a download of an altered row has failed, and delivered nothing
C18_Witness ==
    /\ \E f \in listed : f \notin files
    /\ dl.outcome = "Download failed"
    /\ dl.delivered = Null

\* the rows that carry e and t and are neither verified nor expired at time n
Matching(rows, e, t, n) ==
    {i \in 1..Len(rows) :
        rows[i].email = e /\ rows[i].otp_code = t /\ Outstanding(rows[i], n)}

\* C21: most recent match.  The select of verifyCode takes, among the records
\* that carry the e-mail and the code and are neither verified nor expired,
\* one that none of them is younger than; the marking step sets verified on
\* exactly that record and leaves every other record as it was.
C21_MostRecentMatch ==
    [][\A p \in Procs :
          /\ (pc[p] = "idle" /\ pc'[p] = "srv_mark") =>
                LET id == loc'[p].otpId
                    m  == Matching(otps, loc'[p].email, otps[id].otp_code, now)
                IN  /\ id \in m
                    /\ \A j \in m : otps[j].created_at <= otps[id].created_at
          /\ (pc[p] = "srv_mark" /\ pc'[p] # pc[p]) =>
                /\ Len(otps') = Len(otps)
                /\ otps'[loc[p].otpId].verified
                /\ \A j \in 1..Len(otps) :
                      j # loc[p].otpId => otps'[j] = otps[j]]_vars

\* two records carry the same e-mail and code and neither has expired; the
\* call matched the younger one and marked it, the older one is unverified
C21_Witness ==
    \E p \in Procs, i, j \in 1..Len(otps) :
        /\ pc[p] = "srv_select_cred"
        /\ loc[p].otpId = i
        /\ otps[i].verified
        /\ otps[j].email = otps[i].email
        /\ otps[j].otp_code = otps[i].otp_code
        /\ otps[j].created_at < otps[i].created_at
        /\ Outstanding(otps[j], now)

\* C22: every OtpRecord carries the credential password.  Each record whose
\* e-mail has a CredentialRecord has that CredentialRecord's password.
C22_OtpCarriesCredentialPassword ==
    \A i \in 1..Len(otps) :
        CredSelect(creds, otps[i].email) # NoCred
        => otps[i].password = CredSelect(creds, otps[i].email)

\* C23: the credential comes before the code.  An OtpRecord exists for an
\* e-mail only if a CredentialRecord exists for it, and the edge function
\* never resolves the password from the OtpRecord.
C23_CredentialBeforeOtp ==
    /\ \A i \in 1..Len(otps) : CredRows(creds, otps[i].email) # {}
    /\ \A p \in Procs :
          pc[p] = "srv_select_cred" => CredSelect(creds, loc[p].email) # NoCred

\* C24: the sign-in fallback is bounded to one retry.  A call of verifyOtp
\* makes at most two sign-in attempts and at most one registration attempt;
\* once it attempts to sign in it ends with a session or with an error; and
\* a registration error other than "already registered" ends it with that
\* error after one sign-in attempt.
C24_BoundedRetry ==
    /\ [](\A p \in Procs :
             /\ loc[p].signIns <= 2
             /\ loc[p].signUps <= 1
             /\ loc[p].error = "signUpError" =>
                    (pc[p] = "cli_failed" /\ loc[p].signIns = 1))
    /\ [][\A p \in Procs :
             /\ (pc[p] = "cli_signin" /\ pc'[p] # pc[p]) =>
                    pc'[p] \in {"cli_session", "cli_signup"}
             /\ (pc[p] = "cli_signup" /\ pc'[p] # pc[p]) =>
                    pc'[p] \in {"cli_retry", "cli_failed"}
             /\ (pc[p] = "cli_retry" /\ pc'[p] # pc[p]) =>
                    pc'[p] \in {"cli_session", "cli_failed"}
             /\ (pc[p] \in {"cli_session", "cli_failed"} /\ pc'[p] # pc[p]) =>
                    pc'[p] = "idle"]_vars
    /\ \A p \in Procs :
          pc[p] = "cli_signin" ~> pc[p] \in {"cli_session", "cli_failed"}

\* a call has a session after two sign-in attempts and one registration
\* attempt while another call has ended with the registration's error
C24_Witness ==
    \E p, q \in Procs :
        /\ pc[p] = "cli_session"
        /\ loc[p].signIns = 2
        /\ loc[p].signUps = 1
        /\ pc[q] = "cli_failed"
        /\ loc[q].error = "signUpError"

\* C27: single use under concurrency.  Two calls answered 200 for one e-mail
\* were answered on different records whenever the record of one of them is
\* the only record with its e-mail and code.
C27_ConcurrentSingleUse ==
    \A p, q \in Procs :
        ( /\ p # q
          /\ Answered(p)
          /\ Answered(q)
          /\ Cardinality({i \in 1..Len(otps) :
                            /\ otps[i].email = otps[loc[p].otpId].email
                            /\ otps[i].otp_code = otps[loc[p].otpId].otp_code}) = 1 )
        => loc[q].otpId # loc[p].otpId

\* C28: a failed verification changes nothing.  The step in which the edge
\* function finds no record for the submitted e-mail and code, and every
\* later step of that call, leaves the OtpRecords, the CredentialRecords and
\* the accounts as they are; the call makes no sign-in and no registration
\* attempt and ends there.
C28_FailedVerifyChangesNothing ==
    [][\A p \in Procs :
          /\ (pc[p] = "idle" /\ pc'[p] = "vo_rejected") =>
                /\ OtpSelect(otps, loc'[p].email, loc'[p].otp, now) = {}
                /\ UNCHANGED <<otps, creds, accounts>>
                /\ loc'[p].signIns = 0
                /\ loc'[p].signUps = 0
          /\ (pc[p] = "vo_rejected" /\ pc'[p] # pc[p]) =>
                /\ pc'[p] = "idle"
                /\ UNCHANGED <<otps, creds, accounts>>]_vars

\* a call with a code that was used before has been rejected; the account
\* and the credential made by the earlier call are there
C28_Witness ==
    \E p \in Procs :
        /\ pc[p] = "vo_rejected"
        /\ Classify(otps, loc[p].email, loc[p].otp, now) = "used"
        /\ accounts[loc[p].email].exists
        /\ CredSelect(creds, loc[p].email) # NoCred

\* the paths of the bucket that no FileRecord refers to
Orphans(objects, rows) ==
    {q \in DOMAIN objects : \A r \in rows : r.storage_path # q}

\* C25: the blob is written before the metadata and a failed insert is not
\* compensated.  The put is made while no FileRecord has the path; when the
\* insert fails after the put succeeded the upload reports an error, no
\* FileRecord has the path and the object is still in the bucket; and no
\* step of the upload flows takes an object without FileRecord out of the
\* bucket or changes it.
C25_OrphanAfterFailedInsert ==
    [][/\ \A q \in DOMAIN blobs' \ DOMAIN blobs :
             \A r \in files' : r.storage_path # q
       /\ (up.pc = "insert" /\ up'.pc = "ready") =>
             /\ up'.status = "error"
             /\ up'.toast = "Upload failed"
             /\ files' = files
             /\ up.filePath \in Orphans(blobs', files')
             /\ blobs' = blobs
       /\ \A q \in Orphans(blobs, files) :
             q \in DOMAIN blobs' /\ blobs'[q] = blobs[q]]_vars

\* the insert of the second upload has failed: its object is in the bucket
\* without FileRecord, next to the object and the FileRecord of the first
C25_Witness ==
    /\ up.pc = "ready"
    /\ up.status = "error"
    /\ Cardinality(files) = 1
    /\ Cardinality(Orphans(blobs, files)) = 1
    /\ Cardinality(DOMAIN blobs) = 2

\* C26: delete removes the blob first and the row second, with no rollback.
\* The first step removes the object of the file and nothing else; a failed
\* removal leaves every object and row in place; a row is removed only by
\* the second step, after the removal of the object succeeded; and a failed
\* second step leaves the row, whose object is gone, and every other object
\* and row as they are.
C26_DeleteBlobThenRow ==
    [][/\ (del.pc = "idle" /\ del'.pc = "row") =>
             /\ del'.file.storage_path \notin DOMAIN blobs'
             /\ \A q \in DOMAIN blobs \ {del'.file.storage_path} :
                   q \in DOMAIN blobs' /\ blobs'[q] = blobs[q]
             /\ files' = files
       /\ (del.pc = "idle" /\ del'.pc = "idle" /\ del' # del) =>
             /\ del'.outcome = "Delete failed"
             /\ blobs' = blobs
             /\ files' = files
       /\ (\E r \in files : r \notin files') =>
             /\ del.pc = "row"
             /\ del'.outcome = "File deleted"
             /\ del.file.storage_path \notin DOMAIN blobs
             /\ files' = {r \in files : r.id # del.file.id}
             /\ blobs' = blobs
       /\ (del.pc = "row" /\ del'.outcome = "Delete failed") =>
             /\ files' = files
             /\ blobs' = blobs
             /\ del.file.storage_path \notin DOMAIN blobs']_vars

\* the second step of a delete has failed: the row of the file is there and
\* its object is not, and the other file has its row and its object
C26_Witness ==
    /\ del.outcome = "Delete failed"
    /\ \E r, o \in files :
          /\ r.storage_path \notin DOMAIN blobs
          /\ o.storage_path \in DOMAIN blobs

\* C29: upload never persists metadata without its ciphertext.  Each
\* FileRecord's storage_path is the path of an object in the bucket, is made
\* of the record's user_id and its generated filename, and is the
\* storage_path of no other FileRecord.
C29_RecordHasBlob ==
    \A r \in files :
        /\ r.storage_path \in DOMAIN blobs
        /\ r.storage_path = <<r.user_id, r.filename>>
        /\ r.user_id = UserId
        /\ r.filename[1] = "uuid"
        /\ \A o \in files : o.storage_path = r.storage_path => o = r

\* a put has failed after an upload that went through: one FileRecord, and
\* its object is the only one in the bucket
C29_Witness ==
    /\ up.pc = "ready"
    /\ up.status = "error"
    /\ Cardinality(files) = 1
    /\ DOMAIN blobs = {r.storage_path : r \in files}

====
